---- MODULE Spec2Model ----
(***************************************************************************)
(* Model of the recommendation engine of app.py (Book-Rec): the catalog,   *)
(* the corpus index, the title matcher, the genre detector and             *)
(* recommend_by_text.                                                      *)
(*                                                                         *)
(* Conventions.  A Python str is a sequence of one-character strings, so   *)
(* that `in`, strip, split, lower and < are computed character by          *)
(* character.  Python positions are 0-based; a position p of the code is   *)
(* the position p + 1 here (so a book's id equals its position).  A float  *)
(* is a fixed-point integer: an index row holds multiples of 1/Unit and a  *)
(* similarity multiples of 1/(Unit*Unit).                                  *)
(***************************************************************************)
EXTENDS Integers, Sequences, FiniteSets, TLC

(***************************************************************************)
(* Python str primitives                                                   *)
(***************************************************************************)

\* the printable ASCII characters in code-point order, chr(32) .. chr(126)
\* (chr(96), which a TLA+ string cannot hold, is written "grave")
ASCII ==
    <<" ", "!", "\"", "#", "$", "%", "&", "'", "(", ")", "*", "+", ",", "-", ".", "/",
       "0", "1", "2", "3", "4", "5", "6", "7", "8", "9", ":", ";", "<", "=", ">", "?", "@",
       "A", "B", "C", "D", "E", "F", "G", "H", "I", "J", "K", "L", "M", "N", "O", "P", "Q", "R", "S", "T", "U", "V", "W", "X", "Y", "Z", "[", "\\", "]", "^", "_", "grave",
       "a", "b", "c", "d", "e", "f", "g", "h", "i", "j", "k", "l", "m", "n", "o", "p", "q", "r", "s", "t", "u", "v", "w", "x", "y", "z", "{", "|", "}", "~">>

\* ord(c)
Ord ==
    [c \in {ASCII[i] : i \in 1..Len(ASCII)} |->
        31 + (CHOOSE i \in 1..Len(ASCII) : ASCII[i] = c)]

\* chr(n)
Chr(n) == ASCII[n - 31]

\* str.lower() on one character
LowerChar(c) == IF Ord[c] >= 65 /\ Ord[c] <= 90 THEN Chr(Ord[c] + 32) ELSE c

\* s.lower()
Lower(s) == [i \in 1..Len(s) |-> LowerChar(s[i])]

\* the characters str.strip() and str.split() treat as whitespace
Whitespace == {" "}

\* the argument of word.strip(...) in _detect_genres_from_query_improved
Punctuation == {".", ",", "!", "?", ";", ":", "\"", "(", ")", "[", "]", "{", "}"}

\* s.strip(chars): drop the leading and trailing characters that are in chars
StripChars(s, chars) ==
    LET keep == {i \in 1..Len(s) : s[i] \notin chars}
    IN  IF keep = {} THEN << >>
        ELSE SubSeq(s, CHOOSE i \in keep : \A j \in keep : i <= j,
                       CHOOSE i \in keep : \A j \in keep : i >= j)

\* s.strip()
Strip(s) == StripChars(s, Whitespace)

\* sub in s
Contains(sub, s) ==
    \E i \in 0..(Len(s) - Len(sub)) : SubSeq(s, i + 1, i + Len(sub)) = sub

\* s.split(): the maximal runs of non-whitespace characters, left to right
RECURSIVE Split(_)
Split(s) ==
    LET r == Strip(s)
    IN  IF r = << >> THEN << >>
        ELSE LET ws  == {i \in 1..Len(r) : r[i] \in Whitespace}
                 cut == IF ws = {} THEN Len(r) + 1
                        ELSE CHOOSE i \in ws : \A j \in ws : i <= j
             IN  <<SubSeq(r, 1, cut - 1)>> \o Split(SubSeq(r, cut, Len(r)))

\* a < b on str: lexicographic by code point, a proper prefix is smaller
RECURSIVE StrLess(_, _)
StrLess(a, b) ==
    IF b = << >> THEN FALSE
    ELSE IF a = << >> THEN TRUE
    ELSE IF a[1] # b[1] THEN Ord[a[1]] < Ord[b[1]]
    ELSE StrLess(Tail(a), Tail(b))

(***************************************************************************)
(* Python list primitives                                                  *)
(***************************************************************************)

Min(a, b) == IF a <= b THEN a ELSE b
Max(a, b) == IF a >= b THEN a ELSE b

\* mutant of Slice: the cut is one element short
SliceOneShort(xs, n) ==
    IF n >= 1 THEN SubSeq(xs, 1, Min(n - 1, Len(xs)))
    ELSE SubSeq(xs, 1, Max(0, Len(xs) + n - 1))

\* xs[:n], for any integer n (a negative n counts from the end)
Slice(xs, n) ==
    IF n >= 0 THEN SubSeq(xs, 1, Min(n, Len(xs)))
    ELSE SubSeq(xs, 1, Max(0, Len(xs) + n))

\* one step of xs.sort(key=...): Python's sort is stable, so x goes after the
\* n elements of sorted whose key is not greater than the key of x
InsertSorted(sorted, x, n) ==
    SubSeq(sorted, 1, n) \o <<x>> \o SubSeq(sorted, n + 1, Len(sorted))

\* np.argsort(a) with the default kind (quicksort), which is not stable:
\* every ordering of the positions S by ascending a is a possible outcome
RECURSIVE ArgsortFrom(_, _)
ArgsortFrom(a, S) ==
    IF S = {} THEN {<< >>}
    ELSE UNION {{<<i>> \o r : r \in ArgsortFrom(a, S \ {i})} :
                    i \in {i \in S : \A j \in S : a[i] <= a[j]}}

argsort(a) == ArgsortFrom(a, DOMAIN a)

\* s.split(sep) for a one-character separator
RECURSIVE SplitOn(_, _)
SplitOn(s, sep) ==
    LET at == {i \in 1..Len(s) : s[i] = sep}
    IN  IF at = {} THEN <<s>>
        ELSE LET cut == CHOOSE i \in at : \A j \in at : i <= j
             IN  <<SubSeq(s, 1, cut - 1)>> \o SplitOn(SubSeq(s, cut + 1, Len(s)), sep)

(***************************************************************************)
(* Text Embedder (SentenceTransformer) and numeric helpers                 *)
(***************************************************************************)

\* fixed-point scale: the float 1.0 of an index row
Unit == 5

\* the vectors model.encode can output, before normalisation
RawVectors ==
    << <<3, 4>>, <<6, 8>>, <<4, 3>>, <<-3, -4>>, <<0, 0>>, <<0, 5>>, <<5, 0>> >>

\* the weights a SentenceTransformer can have been loaded with
Models == {0, 1, 2}

RECURSIVE OrdSum(_)
OrdSum(s) == IF s = << >> THEN 0 ELSE Ord[s[1]] + OrdSum(Tail(s))

\* model.encode(text): a deterministic function of the weights and the text
encode(m, text) == RawVectors[((OrdSum(text) + m) % Len(RawVectors)) + 1]

Dot(a, b) == a[1] * b[1] + a[2] * b[2]

\* np.linalg.norm(v)
Norm(v) == CHOOSE n \in 0..(Dot(v, v)) : n * n <= Dot(v, v) /\ (n + 1) * (n + 1) > Dot(v, v)

\* embs / norms with norms[norms==0] = 1.0
NormalizeRow(v) ==
    LET n == IF Norm(v) = 0 THEN 1 ELSE Norm(v)
    IN  <<(v[1] * Unit) \div n, (v[2] * Unit) \div n>>

\* q_emb / (np.linalg.norm(q_emb) + 1e-9): the zero vector stays zero
NormalizeQuery(v) ==
    IF Norm(v) = 0 THEN <<0, 0>>
    ELSE <<(v[1] * Unit) \div Norm(v), (v[2] * Unit) \div Norm(v)>>

\* CORPUS_EMBS @ q_emb
MatVec(M, v) == [i \in DOMAIN M |-> Dot(M[i], v)]

\* the float -1.0 of sims[title_idx] = -1.0
MinusOne == 0 - Unit * Unit

(***************************************************************************)
(* Catalog Store                                                           *)
(***************************************************************************)

\* the rows a books.csv can hold: title, author, description, genres
CsvRows ==
    { [title |-> <<"D", "u", "n", "e">>, author |-> <<"f", "h">>,
       description |-> <<"s", "a", "n", "d">>,
       genres |-> <<"E", "p", "i", "c", ",", " ", "A", "d", "v", "e", "n", "t", "u", "r", "e">>],
      [title |-> <<"d", "u", "n", "e">>, author |-> <<"x">>,
       description |-> <<>>,
       genres |-> <<"r", "o", "m", "a", "n", "c", "e", ",", " ", "E", "p", "i", "c">>],
      [title |-> <<"E", "m", "m", "a">>, author |-> <<"j", "a">>,
       description |-> <<"w", "i", "t">>,
       genres |-> <<"R", "o", "m", "a", "n", "c", "e", ",", "C", "l", "a", "s", "s", "i", "c">>],
      [title |-> <<"Z", "e", "d">>, author |-> <<>>,
       description |-> <<>>,
       genres |-> <<"n", "a", "n">>] }

\* bound on the number of rows of books.csv
MaxBooks == 3

\* the contents books.csv can have (with no row at all, startup fails in
\* build_corpus_embeddings and no request is ever served)
CsvFiles == UNION {[1..n -> CsvRows] : n \in 1..MaxBooks}

\* the genres column of one row, as parsed by load_books_from_csv
ParseGenres(cell) ==
    LET genres_str == Strip(cell)
        NonEmpty(g) == g # << >>
        parts == SplitOn(genres_str, ",")
    IN  IF genres_str # << >> /\ Lower(genres_str) # <<"n", "a", "n">>
        THEN SelectSeq([i \in 1..Len(parts) |-> Strip(parts[i])], NonEmpty)
        ELSE << >>

\* load_books_from_csv, when books.csv is read without error
load_books_from_csv(df) ==
    [idx \in 1..Len(df) |->
        [id          |-> idx,
         title       |-> Strip(df[idx].title),
         author      |-> Strip(df[idx].author),
         description |-> Strip(df[idx].description),
         genres      |-> ParseGenres(df[idx].genres)]]

\* get_default_books(): the built-in catalog
get_default_books ==
    << [id          |-> 1,
         title       |-> <<"D", "u", "n", "e">>,
         author      |-> <<"F", "r", "a", "n", "k", " ", "H", "e", "r", "b", "e", "r",
                          "t">>,
         description |->
             <<"E", "p", "i", "c", " ", "s", "c", "i", "e", "n", "c", "e", " ", "f",
               "i", "c", "t", "i", "o", "n", " ", "a", "b", "o", "u", "t", " ", "p",
               "o", "l", "i", "t", "i", "c", "s", ",", " ", "r", "e", "l", "i", "g",
               "i", "o", "n", ",", " ", "a", "n", "d", " ", "d", "e", "s", "e", "r",
               "t", " ", "p", "l", "a", "n", "e", "t", " ", "A", "r", "r", "a", "k",
               "i", "s", ".">>,
         genres      |->
             <<<<"S", "c", "i", "e", "n", "c", "e", " ", "F", "i", "c", "t", "i", "o",
               "n">>, <<"A", "d", "v", "e", "n", "t", "u", "r", "e">>>>],
       [id          |-> 2,
         title       |-> <<"N", "e", "u", "r", "o", "m", "a", "n", "c", "e", "r">>,
         author      |-> <<"W", "i", "l", "l", "i", "a", "m", " ", "G", "i", "b", "s",
                          "o", "n">>,
         description |->
             <<"C", "y", "b", "e", "r", "p", "u", "n", "k", " ", "c", "l", "a", "s",
               "s", "i", "c", ";", " ", "a", " ", "w", "a", "s", "h", "e", "d", "-",
               "u", "p", " ", "h", "a", "c", "k", "e", "r", " ", "i", "s", " ", "h",
               "i", "r", "e", "d", " ", "f", "o", "r", " ", "o", "n", "e", " ", "l",
               "a", "s", "t", " ", "j", "o", "b", ".">>,
         genres      |->
             <<<<"S", "c", "i", "e", "n", "c", "e", " ", "F", "i", "c", "t", "i", "o",
               "n">>, <<"C", "y", "b", "e", "r", "p", "u", "n", "k">>>>],
       [id          |-> 3,
         title       |-> <<"T", "h", "e", " ", "H", "o", "b", "b", "i", "t">>,
         author      |-> <<"J", ".", "R", ".", "R", ".", " ", "T", "o", "l", "k", "i",
                          "e", "n">>,
         description |->
             <<"A", " ", "r", "e", "l", "u", "c", "t", "a", "n", "t", " ", "h", "o",
               "b", "b", "i", "t", " ", "g", "o", "e", "s", " ", "o", "n", " ", "a",
               "n", " ", "a", "d", "v", "e", "n", "t", "u", "r", "e", " ", "w", "i",
               "t", "h", " ", "d", "w", "a", "r", "v", "e", "s", " ", "t", "o", " ",
               "r", "e", "c", "l", "a", "i", "m", " ", "t", "r", "e", "a", "s", "u",
               "r", "e", ".">>,
         genres      |->
             <<<<"F", "a", "n", "t", "a", "s", "y">>, <<"A", "d", "v", "e", "n", "t",
               "u", "r", "e">>>>],
       [id          |-> 4,
         title       |-> <<"1", "9", "8", "4">>,
         author      |-> <<"G", "e", "o", "r", "g", "e", " ", "O", "r", "w", "e", "l",
                          "l">>,
         description |->
             <<"D", "y", "s", "t", "o", "p", "i", "a", "n", " ", "n", "o", "v", "e",
               "l", " ", "a", "b", "o", "u", "t", " ", "s", "u", "r", "v", "e", "i",
               "l", "l", "a", "n", "c", "e", ",", " ", "t", "o", "t", "a", "l", "i",
               "t", "a", "r", "i", "a", "n", "i", "s", "m", " ", "a", "n", "d", " ",
               "t", "r", "u", "t", "h", " ", "c", "o", "n", "t", "r", "o", "l", ".">>,
         genres      |->
             <<<<"D", "y", "s", "t", "o", "p", "i", "a">>, <<"P", "o", "l", "i", "t",
               "i", "c", "a", "l", " ", "F", "i", "c", "t", "i", "o", "n">>>>],
       [id          |-> 5,
         title       |-> <<"P", "r", "i", "d", "e", " ", "a", "n", "d", " ", "P", "r",
                          "e", "j", "u", "d", "i", "c", "e">>,
         author      |-> <<"J", "a", "n", "e", " ", "A", "u", "s", "t", "e", "n">>,
         description |->
             <<"A", " ", "w", "i", "t", "t", "y", " ", "s", "o", "c", "i", "a", "l",
               " ", "c", "o", "m", "m", "e", "n", "t", "a", "r", "y", " ", "a", "n",
               "d", " ", "r", "o", "m", "a", "n", "c", "e", " ", "c", "e", "n", "t",
               "e", "r", "e", "d", " ", "o", "n", " ", "E", "l", "i", "z", "a", "b",
               "e", "t", "h", " ", "B", "e", "n", "n", "e", "t", ".">>,
         genres      |->
             <<<<"R", "o", "m", "a", "n", "c", "e">>, <<"C", "l", "a", "s", "s", "i",
               "c">>>>],
       [id          |-> 6,
         title       |-> <<"T", "h", "e", " ", "M", "a", "r", "t", "i", "a", "n">>,
         author      |-> <<"A", "n", "d", "y", " ", "W", "e", "i", "r">>,
         description |->
             <<"A", " ", "s", "t", "r", "a", "n", "d", "e", "d", " ", "a", "s", "t",
               "r", "o", "n", "a", "u", "t", " ", "u", "s", "e", "s", " ", "e", "n",
               "g", "i", "n", "e", "e", "r", "i", "n", "g", " ", "a", "n", "d", " ",
               "h", "u", "m", "o", "r", " ", "t", "o", " ", "s", "u", "r", "v", "i",
               "v", "e", " ", "o", "n", " ", "M", "a", "r", "s", ".">>,
         genres      |->
             <<<<"S", "c", "i", "e", "n", "c", "e", " ", "F", "i", "c", "t", "i", "o",
               "n">>, <<"S", "u", "r", "v", "i", "v", "a", "l">>>>],
       [id          |-> 7,
         title       |-> <<"F", "o", "u", "n", "d", "a", "t", "i", "o", "n">>,
         author      |-> <<"I", "s", "a", "a", "c", " ", "A", "s", "i", "m", "o", "v">>,
         description |->
             <<"A", " ", "m", "a", "t", "h", "e", "m", "a", "t", "i", "c", "i", "a",
               "n", " ", "p", "r", "e", "d", "i", "c", "t", "s", " ", "t", "h", "e",
               " ", "f", "a", "l", "l", " ", "o", "f", " ", "a", "n", " ", "e", "m",
               "p", "i", "r", "e", " ", "a", "n", "d", " ", "s", "t", "a", "r", "t",
               "s", " ", "t", "h", "e", " ", "F", "o", "u", "n", "d", "a", "t", "i",
               "o", "n", " ", "p", "r", "o", "j", "e", "c", "t", ".">>,
         genres      |->
             <<<<"S", "c", "i", "e", "n", "c", "e", " ", "F", "i", "c", "t", "i", "o",
               "n">>, <<"E", "p", "i", "c">>>>],
       [id          |-> 8,
         title       |-> <<"T", "h", "e", " ", "N", "a", "m", "e", " ", "o", "f", " ",
                          "t", "h", "e", " ", "W", "i", "n", "d">>,
         author      |-> <<"P", "a", "t", "r", "i", "c", "k", " ", "R", "o", "t", "h",
                          "f", "u", "s", "s">>,
         description |->
             <<"A", " ", "g", "i", "f", "t", "e", "d", " ", "y", "o", "u", "n", "g",
               " ", "m", "a", "n", " ", "g", "r", "o", "w", "s", " ", "i", "n", "t",
               "o", " ", "a", " ", "l", "e", "g", "e", "n", "d", "a", "r", "y", " ",
               "f", "i", "g", "u", "r", "e", ";", " ", "l", "y", "r", "i", "c", "a",
               "l", " ", "f", "a", "n", "t", "a", "s", "y", ".">>,
         genres      |->
             <<<<"F", "a", "n", "t", "a", "s", "y">>, <<"E", "p", "i", "c">>>>],
       [id          |-> 9,
         title       |-> <<"S", "a", "p", "i", "e", "n", "s">>,
         author      |-> <<"Y", "u", "v", "a", "l", " ", "N", "o", "a", "h", " ", "H",
                          "a", "r", "a", "r", "i">>,
         description |->
             <<"A", " ", "b", "r", "i", "e", "f", " ", "h", "i", "s", "t", "o", "r",
               "y", " ", "o", "f", " ", "h", "u", "m", "a", "n", "k", "i", "n", "d",
               " ", "e", "x", "p", "l", "o", "r", "i", "n", "g", " ", "c", "o", "g",
               "n", "i", "t", "i", "v", "e", ",", " ", "a", "g", "r", "i", "c", "u",
               "l", "t", "u", "r", "a", "l", ",", " ", "a", "n", "d", " ", "s", "c",
               "i", "e", "n", "t", "i", "f", "i", "c", " ", "r", "e", "v", "o", "l",
               "u", "t", "i", "o", "n", "s", ".">>,
         genres      |->
             <<<<"N", "o", "n", "f", "i", "c", "t", "i", "o", "n">>, <<"H", "i", "s",
               "t", "o", "r", "y">>>>],
       [id          |-> 10,
         title       |-> <<"T", "h", "e", " ", "L", "e", "f", "t", " ", "H", "a", "n",
                          "d", " ", "o", "f", " ", "D", "a", "r", "k", "n", "e", "s",
                          "s">>,
         author      |-> <<"U", "r", "s", "u", "l", "a", " ", "K", ".", " ", "L", "e",
                          " ", "G", "u", "i", "n">>,
         description |->
             <<"A", "n", " ", "e", "n", "v", "o", "y", " ", "v", "i", "s", "i", "t",
               "s", " ", "a", " ", "p", "l", "a", "n", "e", "t", " ", "w", "i", "t",
               "h", " ", "a", "m", "b", "i", "s", "e", "x", "u", "a", "l", " ", "i",
               "n", "h", "a", "b", "i", "t", "a", "n", "t", "s", ";", " ", "e", "x",
               "p", "l", "o", "r", "e", "s", " ", "s", "o", "c", "i", "e", "t", "y",
               " ", "a", "n", "d", " ", "p", "o", "l", "i", "t", "i", "c", "s", ".">>,
         genres      |->
             <<<<"S", "c", "i", "e", "n", "c", "e", " ", "F", "i", "c", "t", "i", "o",
               "n">>, <<"S", "o", "c", "i", "a", "l", " ", "C", "o", "m", "m", "e", "n",
               "t", "a", "r", "y">>>>],
       [id          |-> 11,
         title       |-> <<"F", "r", "a", "n", "k", "e", "n", "s", "t", "e", "i", "n">>,
         author      |-> <<"M", "a", "r", "y", " ", "S", "h", "e", "l", "l", "e", "y">>,
         description |->
             <<"A", " ", "s", "c", "i", "e", "n", "t", "i", "s", "t", " ", "c", "r",
               "e", "a", "t", "e", "s", " ", "l", "i", "f", "e", " ", "a", "n", "d",
               " ", "f", "a", "c", "e", "s", " ", "t", "h", "e", " ", "c", "o", "n",
               "s", "e", "q", "u", "e", "n", "c", "e", "s", ";", " ", "e", "a", "r",
               "l", "y", " ", "s", "c", "i", "e", "n", "c", "e", " ", "f", "i", "c",
               "t", "i", "o", "n", " ", "a", "n", "d", " ", "g", "o", "t", "h", "i",
               "c", " ", "n", "o", "v", "e", "l", ".">>,
         genres      |->
             <<<<"C", "l", "a", "s", "s", "i", "c">>, <<"G", "o", "t", "h", "i", "c">>>>],
       [id          |-> 12,
         title       |-> <<"T", "h", "e", " ", "C", "a", "t", "c", "h", "e", "r", " ",
                          "i", "n", " ", "t", "h", "e", " ", "R", "y", "e">>,
         author      |-> <<"J", ".", "D", ".", " ", "S", "a", "l", "i", "n", "g", "e",
                          "r">>,
         description |->
             <<"A", " ", "c", "o", "m", "i", "n", "g", "-", "o", "f", "-", "a", "g",
               "e", " ", "s", "t", "o", "r", "y", " ", "a", "b", "o", "u", "t", " ",
               "t", "e", "e", "n", "a", "g", "e", " ", "a", "l", "i", "e", "n", "a",
               "t", "i", "o", "n", " ", "a", "n", "d", " ", "a", "n", "g", "s", "t",
               ".">>,
         genres      |->
             <<<<"C", "l", "a", "s", "s", "i", "c">>, <<"C", "o", "m", "i", "n", "g",
               "-", "o", "f", "-", "a", "g", "e">>>>],
       [id          |-> 13,
         title       |-> <<"T", "h", "e", " ", "G", "r", "e", "a", "t", " ", "G", "a",
                          "t", "s", "b", "y">>,
         author      |-> <<"F", ".", " ", "S", "c", "o", "t", "t", " ", "F", "i", "t",
                          "z", "g", "e", "r", "a", "l", "d">>,
         description |->
             <<"A", " ", "c", "r", "i", "t", "i", "q", "u", "e", " ", "o", "f", " ",
               "t", "h", "e", " ", "A", "m", "e", "r", "i", "c", "a", "n", " ", "D",
               "r", "e", "a", "m", " ", "s", "e", "t", " ", "i", "n", " ", "t", "h",
               "e", " ", "J", "a", "z", "z", " ", "A", "g", "e", ".">>,
         genres      |->
             <<<<"C", "l", "a", "s", "s", "i", "c">>, <<"R", "o", "m", "a", "n", "c",
               "e">>>>],
       [id          |-> 14,
         title       |-> <<"T", "o", " ", "K", "i", "l", "l", " ", "a", " ", "M", "o",
                          "c", "k", "i", "n", "g", "b", "i", "r", "d">>,
         author      |-> <<"H", "a", "r", "p", "e", "r", " ", "L", "e", "e">>,
         description |->
             <<"A", " ", "s", "t", "o", "r", "y", " ", "o", "f", " ", "r", "a", "c",
               "i", "a", "l", " ", "i", "n", "j", "u", "s", "t", "i", "c", "e", " ",
               "a", "n", "d", " ", "c", "h", "i", "l", "d", "h", "o", "o", "d", " ",
               "i", "n", "n", "o", "c", "e", "n", "c", "e", " ", "i", "n", " ", "t",
               "h", "e", " ", "A", "m", "e", "r", "i", "c", "a", "n", " ", "S", "o",
               "u", "t", "h", ".">>,
         genres      |->
             <<<<"C", "l", "a", "s", "s", "i", "c">>, <<"S", "o", "c", "i", "a", "l",
               " ", "C", "o", "m", "m", "e", "n", "t", "a", "r", "y">>>>],
       [id          |-> 15,
         title       |-> <<"T", "h", "e", " ", "H", "u", "n", "g", "e", "r", " ", "G",
                          "a", "m", "e", "s">>,
         author      |-> <<"S", "u", "z", "a", "n", "n", "e", " ", "C", "o", "l", "l",
                          "i", "n", "s">>,
         description |->
             <<"A", " ", "d", "y", "s", "t", "o", "p", "i", "a", "n", " ", "t", "a",
               "l", "e", " ", "o", "f", " ", "s", "u", "r", "v", "i", "v", "a", "l",
               " ", "a", "n", "d", " ", "r", "e", "b", "e", "l", "l", "i", "o", "n",
               " ", "i", "n", " ", "a", " ", "t", "o", "t", "a", "l", "i", "t", "a",
               "r", "i", "a", "n", " ", "s", "o", "c", "i", "e", "t", "y", ".">>,
         genres      |->
             <<<<"D", "y", "s", "t", "o", "p", "i", "a">>, <<"A", "d", "v", "e", "n",
               "t", "u", "r", "e">>, <<"Y", "o", "u", "n", "g", " ", "A", "d", "u", "l",
               "t">>>>],
       [id          |-> 16,
         title       |-> <<"H", "a", "r", "r", "y", " ", "P", "o", "t", "t", "e", "r",
                          " ", "a", "n", "d", " ", "t", "h", "e", " ", "S", "o", "r",
                          "c", "e", "r", "e", "r", "'", "s", " ", "S", "t", "o", "n",
                          "e">>,
         author      |-> <<"J", ".", "K", ".", " ", "R", "o", "w", "l", "i", "n", "g">>,
         description |->
             <<"A", " ", "y", "o", "u", "n", "g", " ", "w", "i", "z", "a", "r", "d",
               " ", "d", "i", "s", "c", "o", "v", "e", "r", "s", " ", "h", "i", "s",
               " ", "m", "a", "g", "i", "c", "a", "l", " ", "h", "e", "r", "i", "t",
               "a", "g", "e", " ", "a", "n", "d", " ", "a", "t", "t", "e", "n", "d",
               "s", " ", "H", "o", "g", "w", "a", "r", "t", "s", ".">>,
         genres      |->
             <<<<"F", "a", "n", "t", "a", "s", "y">>, <<"A", "d", "v", "e", "n", "t",
               "u", "r", "e">>, <<"Y", "o", "u", "n", "g", " ", "A", "d", "u", "l",
               "t">>>>],
       [id          |-> 17,
         title       |-> <<"T", "h", "e", " ", "G", "i", "r", "l", " ", "w", "i", "t",
                          "h", " ", "t", "h", "e", " ", "D", "r", "a", "g", "o", "n",
                          " ", "T", "a", "t", "t", "o", "o">>,
         author      |-> <<"S", "t", "i", "e", "g", " ", "L", "a", "r", "s", "s", "o",
                          "n">>,
         description |->
             <<"A", " ", "j", "o", "u", "r", "n", "a", "l", "i", "s", "t", " ", "a",
               "n", "d", " ", "h", "a", "c", "k", "e", "r", " ", "i", "n", "v", "e",
               "s", "t", "i", "g", "a", "t", "e", " ", "a", " ", "w", "e", "a", "l",
               "t", "h", "y", " ", "f", "a", "m", "i", "l", "y", "'", "s", " ", "d",
               "a", "r", "k", " ", "s", "e", "c", "r", "e", "t", "s", ".">>,
         genres      |->
             <<<<"M", "y", "s", "t", "e", "r", "y">>, <<"T", "h", "r", "i", "l", "l",
               "e", "r">>>>],
       [id          |-> 18,
         title       |-> <<"G", "o", "n", "e", " ", "G", "i", "r", "l">>,
         author      |-> <<"G", "i", "l", "l", "i", "a", "n", " ", "F", "l", "y", "n",
                          "n">>,
         description |->
             <<"A", " ", "p", "s", "y", "c", "h", "o", "l", "o", "g", "i", "c", "a",
               "l", " ", "t", "h", "r", "i", "l", "l", "e", "r", " ", "a", "b", "o",
               "u", "t", " ", "a", " ", "m", "a", "r", "r", "i", "a", "g", "e", " ",
               "g", "o", "n", "e", " ", "w", "r", "o", "n", "g", ".">>,
         genres      |->
             <<<<"T", "h", "r", "i", "l", "l", "e", "r">>, <<"M", "y", "s", "t", "e",
               "r", "y">>, <<"P", "s", "y", "c", "h", "o", "l", "o", "g", "i", "c", "a",
               "l">>>>],
       [id          |-> 19,
         title       |-> <<"T", "h", "e", " ", "F", "a", "u", "l", "t", " ", "i", "n",
                          " ", "O", "u", "r", " ", "S", "t", "a", "r", "s">>,
         author      |-> <<"J", "o", "h", "n", " ", "G", "r", "e", "e", "n">>,
         description |->
             <<"A", " ", "l", "o", "v", "e", " ", "s", "t", "o", "r", "y", " ", "b",
               "e", "t", "w", "e", "e", "n", " ", "t", "w", "o", " ", "t", "e", "e",
               "n", "a", "g", "e", "r", "s", " ", "w", "i", "t", "h", " ", "c", "a",
               "n", "c", "e", "r", ".">>,
         genres      |->
             <<<<"R", "o", "m", "a", "n", "c", "e">>, <<"Y", "o", "u", "n", "g", " ",
               "A", "d", "u", "l", "t">>, <<"C", "o", "n", "t", "e", "m", "p", "o", "r",
               "a", "r", "y", " ", "F", "i", "c", "t", "i", "o", "n">>>>],
       [id          |-> 20,
         title       |-> <<"E", "d", "u", "c", "a", "t", "e", "d">>,
         author      |-> <<"T", "a", "r", "a", " ", "W", "e", "s", "t", "o", "v", "e",
                          "r">>,
         description |->
             <<"A", " ", "m", "e", "m", "o", "i", "r", " ", "a", "b", "o", "u", "t",
               " ", "e", "d", "u", "c", "a", "t", "i", "o", "n", ",", " ", "f", "a",
               "m", "i", "l", "y", ",", " ", "a", "n", "d", " ", "t", "h", "e", " ",
               "s", "t", "r", "u", "g", "g", "l", "e", " ", "f", "o", "r", " ", "s",
               "e", "l", "f", "-", "i", "n", "v", "e", "n", "t", "i", "o", "n", ".">>,
         genres      |->
             <<<<"N", "o", "n", "f", "i", "c", "t", "i", "o", "n">>, <<"M", "e", "m",
               "o", "i", "r">>, <<"B", "i", "o", "g", "r", "a", "p", "h", "y">>>>],
       [id          |-> 21,
         title       |-> <<"T", "h", "e", " ", "S", "i", "l", "e", "n", "t", " ", "P",
                          "a", "t", "i", "e", "n", "t">>,
         author      |-> <<"A", "l", "e", "x", " ", "M", "i", "c", "h", "a", "e", "l",
                          "i", "d", "e", "s">>,
         description |->
             <<"A", " ", "p", "s", "y", "c", "h", "o", "t", "h", "e", "r", "a", "p",
               "i", "s", "t", "'", "s", " ", "o", "b", "s", "e", "s", "s", "i", "o",
               "n", " ", "w", "i", "t", "h", " ", "t", "r", "e", "a", "t", "i", "n",
               "g", " ", "a", " ", "w", "o", "m", "a", "n", " ", "w", "h", "o", " ",
               "r", "e", "f", "u", "s", "e", "s", " ", "t", "o", " ", "s", "p", "e",
               "a", "k", ".">>,
         genres      |->
             <<<<"T", "h", "r", "i", "l", "l", "e", "r">>, <<"M", "y", "s", "t", "e",
               "r", "y">>, <<"P", "s", "y", "c", "h", "o", "l", "o", "g", "i", "c", "a",
               "l">>>>],
       [id          |-> 22,
         title       |-> <<"W", "h", "e", "r", "e", " ", "t", "h", "e", " ", "C", "r",
                          "a", "w", "d", "a", "d", "s", " ", "S", "i", "n", "g">>,
         author      |-> <<"D", "e", "l", "i", "a", " ", "O", "w", "e", "n", "s">>,
         description |->
             <<"A", " ", "c", "o", "m", "i", "n", "g", "-", "o", "f", "-", "a", "g",
               "e", " ", "s", "t", "o", "r", "y", " ", "s", "e", "t", " ", "i", "n",
               " ", "t", "h", "e", " ", "m", "a", "r", "s", "h", "l", "a", "n", "d",
               "s", " ", "o", "f", " ", "N", "o", "r", "t", "h", " ", "C", "a", "r",
               "o", "l", "i", "n", "a", ".">>,
         genres      |->
             <<<<"M", "y", "s", "t", "e", "r", "y">>, <<"C", "o", "m", "i", "n", "g",
               "-", "o", "f", "-", "a", "g", "e">>, <<"R", "o", "m", "a", "n", "c",
               "e">>>>],
       [id          |-> 23,
         title       |-> <<"T", "h", "e", " ", "S", "e", "v", "e", "n", " ", "H", "u",
                          "s", "b", "a", "n", "d", "s", " ", "o", "f", " ", "E", "v",
                          "e", "l", "y", "n", " ", "H", "u", "g", "o">>,
         author      |-> <<"T", "a", "y", "l", "o", "r", " ", "J", "e", "n", "k", "i",
                          "n", "s", " ", "R", "e", "i", "d">>,
         description |->
             <<"A", " ", "r", "e", "c", "l", "u", "s", "i", "v", "e", " ", "H", "o",
               "l", "l", "y", "w", "o", "o", "d", " ", "i", "c", "o", "n", " ", "t",
               "e", "l", "l", "s", " ", "h", "e", "r", " ", "l", "i", "f", "e", " ",
               "s", "t", "o", "r", "y", " ", "t", "o", " ", "a", "n", " ", "u", "n",
               "k", "n", "o", "w", "n", " ", "j", "o", "u", "r", "n", "a", "l", "i",
               "s", "t", ".">>,
         genres      |->
             <<<<"R", "o", "m", "a", "n", "c", "e">>, <<"H", "i", "s", "t", "o", "r",
               "i", "c", "a", "l", " ", "F", "i", "c", "t", "i", "o", "n">>, <<"L", "G",
               "B", "T", "Q", "+">>>>],
       [id          |-> 24,
         title       |-> <<"A", "t", "o", "m", "i", "c", " ", "H", "a", "b", "i", "t",
                          "s">>,
         author      |-> <<"J", "a", "m", "e", "s", " ", "C", "l", "e", "a", "r">>,
         description |->
             <<"A", " ", "g", "u", "i", "d", "e", " ", "t", "o", " ", "b", "u", "i",
               "l", "d", "i", "n", "g", " ", "g", "o", "o", "d", " ", "h", "a", "b",
               "i", "t", "s", " ", "a", "n", "d", " ", "b", "r", "e", "a", "k", "i",
               "n", "g", " ", "b", "a", "d", " ", "o", "n", "e", "s", ".">>,
         genres      |->
             <<<<"N", "o", "n", "f", "i", "c", "t", "i", "o", "n">>, <<"S", "e", "l",
               "f", "-", "H", "e", "l", "p">>, <<"P", "s", "y", "c", "h", "o", "l", "o",
               "g", "y">>>>],
       [id          |-> 25,
         title       |-> <<"T", "h", "e", " ", "M", "i", "d", "n", "i", "g", "h", "t",
                          " ", "L", "i", "b", "r", "a", "r", "y">>,
         author      |-> <<"M", "a", "t", "t", " ", "H", "a", "i", "g">>,
         description |->
             <<"A", " ", "w", "o", "m", "a", "n", " ", "e", "x", "p", "l", "o", "r",
               "e", "s", " ", "a", "l", "t", "e", "r", "n", "a", "t", "e", " ", "v",
               "e", "r", "s", "i", "o", "n", "s", " ", "o", "f", " ", "h", "e", "r",
               " ", "l", "i", "f", "e", " ", "i", "n", " ", "a", " ", "m", "a", "g",
               "i", "c", "a", "l", " ", "l", "i", "b", "r", "a", "r", "y", ".">>,
         genres      |->
             <<<<"F", "a", "n", "t", "a", "s", "y">>, <<"C", "o", "n", "t", "e", "m",
               "p", "o", "r", "a", "r", "y", " ", "F", "i", "c", "t", "i", "o", "n">>,
               <<"P", "h", "i", "l", "o", "s", "o", "p", "h", "y">>>>] >>

\* what pd.read_csv(csv_path) meets: no file, a file it cannot parse, or a
\* table df (also one of no rows) whose row n has an index label of the type
\* index[n]: an int, as in the default RangeIndex, or a str, as where pandas
\* takes the labels from the file
CsvSources ==
    {[kind |-> c, df |-> << >>, index |-> << >>] : c \in {"missing", "unparseable", "table"}}
    \cup {[kind |-> "table", df |-> df, index |-> index] :
             df \in CsvFiles, index \in UNION {[1..n -> {"int", "str"}] : n \in 1..MaxBooks}}

\* the rows of a table at which book_id = idx + 1 raises TypeError
RaisingRows(csv) ==
    {n \in 1..Len(csv.df) : n \in DOMAIN csv.index /\ csv.index[n] # "int"}

\* mutant of try_load_books_from_csv: the books loaded before the error are
\* returned
try_load_books_partial(csv) ==
    IF csv.kind # "table" THEN get_default_books
    ELSE IF RaisingRows(csv) # {}
    THEN LET first == CHOOSE n \in RaisingRows(csv) : \A r \in RaisingRows(csv) : n <= r
         IN  load_books_from_csv(SubSeq(csv.df, 1, first - 1))
    ELSE load_books_from_csv(csv.df)

\* load_books_from_csv(csv_path) with its try and its two except clauses
try_load_books_from_csv(csv) ==
    IF csv.kind = "missing" THEN get_default_books
    ELSE IF csv.kind = "unparseable" THEN get_default_books
    ELSE IF RaisingRows(csv) # {} THEN get_default_books
    ELSE load_books_from_csv(csv.df)

(***************************************************************************)
(* Corpus Index and title lookup                                           *)
(***************************************************************************)

\* build_corpus_embeddings(books), with the model m
build_corpus_embeddings(m, books) ==
    [i \in 1..Len(books) |->
        NormalizeRow(encode(m, books[i].title \o <<" ">> \o books[i].author
                                 \o <<" ">> \o books[i].description))]

\* mutant of DictOf: a key keeps the value of its first insertion
RECURSIVE DictOfFirstValue(_, _)
DictOfFirstValue(books, n) ==
    IF n = 0 THEN << >>
    ELSE LET d   == DictOfFirstValue(books, n - 1)
             key == Lower(books[n].title)
         IN  IF \E j \in 1..Len(d) : d[j][1] = key THEN d
             ELSE Append(d, <<key, n>>)

\* {b['title'].lower(): i for i, b in enumerate(BOOKS)}: a dict keeps a key
\* at the place of its first insertion and its value from the last one
RECURSIVE DictOf(_, _)
DictOf(books, n) ==
    IF n = 0 THEN << >>
    ELSE LET d    == DictOf(books, n - 1)
             key  == Lower(books[n].title)
             at   == {j \in 1..Len(d) : d[j][1] = key}
         IN  IF at = {} THEN Append(d, <<key, n>>)
             ELSE [j \in 1..Len(d) |-> IF j \in at THEN <<key, n>> ELSE d[j]]

TitleLookupOf(books) == DictOf(books, Len(books))

\* Python's None as the query_text argument: a value that is no str
NoneText == <<"None">>

\* (query_text or ""): None and the empty str are the falsy arguments
OrEmpty(query) == IF query = NoneText THEN << >> ELSE query

\* the queries a caller sends
Queries ==
    { <<>>,
      NoneText,
      <<" ">>,
      <<"d", "u", "n", "e">>,
      <<"I", " ", "l", "i", "k", "e", "d", " ", "D", "u", "n", "e">>,
      <<"r", "o", "m", "a", "n", "c", "e">>,
      <<" ", "R", "o", "m", "a", "n", "t", "i", "c", " ", "e", "p", "i", "c", "!">>,
      <<"y", "a">>,
      <<"x", "y", "z", "z", "y">>,
      <<"e", "m", "m", "a", " ", "r", "o", "m", "a", "n", "c", "e">>,
      <<"c", "l", "a", "s", "s", "i", "c">>,
      <<"E", "m", "m", "a", ",", " ", "D", "u", "n", "e">> }

\* bounds on the k a caller asks for: -MaxNegK .. MaxK
MaxNegK == 1
MaxK == 3

\* the pieces a query to the genre detector is put together from
Fragments ==
    { <<"s", "f">>,
      <<"y", "a">>,
      <<"E", "p", "i", "c">>,
      <<"r", "o", "m", "a", "n", "t", "i", "c">>,
      <<"c", "l", "a", "s", "s", "i", "c", "s">>,
      <<"n", "o", "n">>,
      <<" ">>,
      <<"f", "i", "c", "t", "i", "o", "n">>,
      <<"!">>,
      <<"x">>,
      <<"-">> }

\* bound on the number of pieces of such a query
MaxFragments == 3

RECURSIVE Concatenations(_)
Concatenations(n) ==
    IF n = 0 THEN {<< >>}
    ELSE Concatenations(n - 1) \cup
         {a \o b : a \in Concatenations(n - 1), b \in Fragments}

DetectQueries == Concatenations(MaxFragments)

(***************************************************************************)
(* Title Matcher                                                           *)
(***************************************************************************)

\* Python's None, as the result of _find_title_mentioned (positions are >= 1)
None == 0

\* mutant of find_title_mentioned: the query is not lower-cased
find_title_mentioned_case_sensitive(lookup, query) ==
    LET hits == {j \in 1..Len(lookup) : Contains(lookup[j][1], query)}
    IN  IF hits = {} THEN None
        ELSE lookup[CHOOSE j \in hits : \A h \in hits : j <= h][2]

\* _find_title_mentioned(query), iterating the dict lookup in its order
find_title_mentioned(lookup, query) ==
    LET q    == Lower(OrEmpty(query))
        hits == {j \in 1..Len(lookup) : Contains(lookup[j][1], q)}
    IN  IF hits = {} THEN None
        ELSE lookup[CHOOSE j \in hits : \A h \in hits : j <= h][2]

(***************************************************************************)
(* Genre Detector                                                          *)
(***************************************************************************)

\* genre_mapping of _detect_genres_from_query_improved: surface form, canonical tag

genre_mapping ==
    << << <<"s", "c", "i", "e", "n", "c", "e", " ", "f", "i", "c", "t", "i", "o", "n">>,
          <<"s", "c", "i", "e", "n", "c", "e", " ", "f", "i", "c", "t", "i", "o", "n">> >>,
       << <<"s", "c", "i", "-", "f", "i">>,
          <<"s", "c", "i", "e", "n", "c", "e", " ", "f", "i", "c", "t", "i", "o", "n">> >>,
       << <<"s", "c", "i", "f", "i">>,
          <<"s", "c", "i", "e", "n", "c", "e", " ", "f", "i", "c", "t", "i", "o", "n">> >>,
       << <<"s", "f">>,
          <<"s", "c", "i", "e", "n", "c", "e", " ", "f", "i", "c", "t", "i", "o", "n">> >>,
       << <<"f", "a", "n", "t", "a", "s", "y">>,
          <<"f", "a", "n", "t", "a", "s", "y">> >>,
       << <<"r", "o", "m", "a", "n", "c", "e">>,
          <<"r", "o", "m", "a", "n", "c", "e">> >>,
       << <<"r", "o", "m", "a", "n", "t", "i", "c">>,
          <<"r", "o", "m", "a", "n", "c", "e">> >>,
       << <<"d", "y", "s", "t", "o", "p", "i", "a">>,
          <<"d", "y", "s", "t", "o", "p", "i", "a">> >>,
       << <<"d", "y", "s", "t", "o", "p", "i", "a", "n">>,
          <<"d", "y", "s", "t", "o", "p", "i", "a">> >>,
       << <<"n", "o", "n", "f", "i", "c", "t", "i", "o", "n">>,
          <<"n", "o", "n", "f", "i", "c", "t", "i", "o", "n">> >>,
       << <<"n", "o", "n", "-", "f", "i", "c", "t", "i", "o", "n">>,
          <<"n", "o", "n", "f", "i", "c", "t", "i", "o", "n">> >>,
       << <<"n", "o", "n", " ", "f", "i", "c", "t", "i", "o", "n">>,
          <<"n", "o", "n", "f", "i", "c", "t", "i", "o", "n">> >>,
       << <<"c", "l", "a", "s", "s", "i", "c">>,
          <<"c", "l", "a", "s", "s", "i", "c">> >>,
       << <<"c", "l", "a", "s", "s", "i", "c", "s">>,
          <<"c", "l", "a", "s", "s", "i", "c">> >>,
       << <<"a", "d", "v", "e", "n", "t", "u", "r", "e">>,
          <<"a", "d", "v", "e", "n", "t", "u", "r", "e">> >>,
       << <<"c", "y", "b", "e", "r", "p", "u", "n", "k">>,
          <<"c", "y", "b", "e", "r", "p", "u", "n", "k">> >>,
       << <<"g", "o", "t", "h", "i", "c">>,
          <<"g", "o", "t", "h", "i", "c">> >>,
       << <<"h", "i", "s", "t", "o", "r", "y">>,
          <<"h", "i", "s", "t", "o", "r", "y">> >>,
       << <<"h", "i", "s", "t", "o", "r", "i", "c", "a", "l">>,
          <<"h", "i", "s", "t", "o", "r", "y">> >>,
       << <<"e", "p", "i", "c">>,
          <<"e", "p", "i", "c">> >>,
       << <<"s", "u", "r", "v", "i", "v", "a", "l">>,
          <<"s", "u", "r", "v", "i", "v", "a", "l">> >>,
       << <<"p", "o", "l", "i", "t", "i", "c", "a", "l">>,
          <<"p", "o", "l", "i", "t", "i", "c", "a", "l", " ", "f", "i", "c", "t", "i", "o", "n">> >>,
       << <<"p", "o", "l", "i", "t", "i", "c", "s">>,
          <<"p", "o", "l", "i", "t", "i", "c", "a", "l", " ", "f", "i", "c", "t", "i", "o", "n">> >>,
       << <<"c", "o", "m", "i", "n", "g", "-", "o", "f", "-", "a", "g", "e">>,
          <<"c", "o", "m", "i", "n", "g", "-", "o", "f", "-", "a", "g", "e">> >>,
       << <<"c", "o", "m", "i", "n", "g", " ", "o", "f", " ", "a", "g", "e">>,
          <<"c", "o", "m", "i", "n", "g", "-", "o", "f", "-", "a", "g", "e">> >>,
       << <<"s", "o", "c", "i", "a", "l", " ", "c", "o", "m", "m", "e", "n", "t", "a", "r", "y">>,
          <<"s", "o", "c", "i", "a", "l", " ", "c", "o", "m", "m", "e", "n", "t", "a", "r", "y">> >>,
       << <<"t", "h", "r", "i", "l", "l", "e", "r">>,
          <<"t", "h", "r", "i", "l", "l", "e", "r">> >>,
       << <<"m", "y", "s", "t", "e", "r", "y">>,
          <<"m", "y", "s", "t", "e", "r", "y">> >>,
       << <<"p", "s", "y", "c", "h", "o", "l", "o", "g", "i", "c", "a", "l">>,
          <<"p", "s", "y", "c", "h", "o", "l", "o", "g", "i", "c", "a", "l">> >>,
       << <<"y", "o", "u", "n", "g", " ", "a", "d", "u", "l", "t">>,
          <<"y", "o", "u", "n", "g", " ", "a", "d", "u", "l", "t">> >>,
       << <<"y", "a">>,
          <<"y", "o", "u", "n", "g", " ", "a", "d", "u", "l", "t">> >>,
       << <<"c", "o", "n", "t", "e", "m", "p", "o", "r", "a", "r", "y">>,
          <<"c", "o", "n", "t", "e", "m", "p", "o", "r", "a", "r", "y", " ", "f", "i", "c", "t", "i", "o", "n">> >>,
       << <<"m", "e", "m", "o", "i", "r">>,
          <<"m", "e", "m", "o", "i", "r">> >>,
       << <<"b", "i", "o", "g", "r", "a", "p", "h", "y">>,
          <<"b", "i", "o", "g", "r", "a", "p", "h", "y">> >>,
       << <<"s", "e", "l", "f", "-", "h", "e", "l", "p">>,
          <<"s", "e", "l", "f", "-", "h", "e", "l", "p">> >>,
       << <<"p", "h", "i", "l", "o", "s", "o", "p", "h", "y">>,
          <<"p", "h", "i", "l", "o", "s", "o", "p", "h", "y">> >> >>

\* the canonical tags of the surface forms (positions of genre_mapping) in js
TagsOf(js) == {genre_mapping[j][2] : j \in js}

\* the "if q in genre_mapping" step: the positions of the key equal to q
ExactStep(q) == {j \in 1..Len(genre_mapping) : genre_mapping[j][1] = q}

\* mutant of SubstringStep: the loop stops at the first surface form found
SubstringStepFirstOnly(q) ==
    LET found == {j \in 1..Len(genre_mapping) : Contains(genre_mapping[j][1], q)}
    IN  TagsOf({j \in found : \A h \in found : j <= h})

\* the "if genre_term in q" loop over all of genre_mapping
SubstringStep(q) == TagsOf({j \in 1..Len(genre_mapping) : Contains(genre_mapping[j][1], q)})

\* mutant of TokenStep: the words are normalised as _normalize_genre_token
\* does, dropping every character that is no lower-case letter or digit
TokenStepNormalized(q) ==
    LET words    == Split(q)
        Alnum(c) == c \in {"a", "b", "c", "d", "e", "f", "g", "h", "i", "j", "k", "l",
                           "m", "n", "o", "p", "q", "r", "s", "t", "u", "v", "w", "x",
                           "y", "z", "0", "1", "2", "3", "4", "5", "6", "7", "8", "9"}
    IN  TagsOf({j \in 1..Len(genre_mapping) :
                  \E w \in 1..Len(words) :
                      SelectSeq(words[w], Alnum) = genre_mapping[j][1]})

\* the word-by-word loop over q.split()
TokenStep(q) ==
    LET words == Split(q)
    IN  TagsOf({j \in 1..Len(genre_mapping) :
                  \E w \in 1..Len(words) :
                      StripChars(words[w], Punctuation) = genre_mapping[j][1]})

\* _detect_genres_from_query_improved(query); the returned list(detected) is
\* used as a set only
detect_genres_from_query_improved(query) ==
    LET q == Strip(Lower(query))
    IN  IF ExactStep(q) # {} THEN TagsOf(ExactStep(q))
        ELSE IF SubstringStep(q) # {} THEN SubstringStep(q)
        ELSE TokenStep(q)

(***************************************************************************)
(* Recommendation Engine: the steps of recommend_by_text                   *)
(***************************************************************************)

\* [BOOKS[int(i)] for i in idxs]
BooksAt(books, idxs) == [n \in 1..Len(idxs) |-> books[idxs[n]]]

\* [g.lower() for g in book.get('genres', [])], used for membership only
book_genres_lower(book) == {Lower(book.genres[i]) : i \in 1..Len(book.genres)}

\* the loop that builds genre_matches: the positions, in catalog order, of
\* the books with any(dg in book_genres_lower for dg in detected_genres)
genre_matches(books, detected_genres) ==
    LET Matches(i) == \E dg \in detected_genres : dg \in book_genres_lower(books[i])
    IN  SelectSeq([i \in 1..Len(books) |-> i], Matches)

\* genre_matches.sort(key=lambda x: x[1]['title'])
RECURSIVE sort_by_title(_, _)
sort_by_title(books, matches) ==
    IF matches = << >> THEN << >>
    ELSE LET x      == matches[Len(matches)]
             sorted == sort_by_title(books, SubSeq(matches, 1, Len(matches) - 1))
             n      == Cardinality({i \in 1..Len(sorted) :
                           ~ StrLess(books[x].title, books[sorted[i]].title)})
         IN  InsertSorted(sorted, x, n)

\* available_sims.sort(key=lambda x: -x[1])
RECURSIVE sort_by_sims_desc(_, _)
sort_by_sims_desc(sims, available) ==
    IF available = << >> THEN << >>
    ELSE LET x      == available[Len(available)]
             sorted == sort_by_sims_desc(sims, SubSeq(available, 1, Len(available) - 1))
             n      == Cardinality({i \in 1..Len(sorted) :
                           ~ (0 - sims[x] < 0 - sims[sorted[i]])})
         IN  InsertSorted(sorted, x, n)

\* mutant of title_sims: the entry of the mentioned book is not overwritten
title_sims_unmasked(embs, title_idx) == MatVec(embs, embs[title_idx])

\* q_emb = CORPUS_EMBS[title_idx]; sims = CORPUS_EMBS @ q_emb; sims[title_idx] = -1.0
title_sims(embs, title_idx) ==
    [MatVec(embs, embs[title_idx]) EXCEPT ![title_idx] = MinusOne]

\* q_emb = model.encode([q])[0]; q_emb /= norm + 1e-9; sims = CORPUS_EMBS @ q_emb
query_sims(m, embs, q) == MatVec(embs, NormalizeQuery(encode(m, q)))

\* mutant of top_idx: the similarities are sorted ascending
top_idx_ascending(sims, kk) == {Slice(order, kk) : order \in argsort(sims)}

\* np.argsort(-sims)[:k]: the possible outcomes
top_idx(sims, kk) ==
    {Slice(order, kk) : order \in argsort([i \in DOMAIN sims |-> 0 - sims[i]])}

\* mutant of genre_sorted: the matches are not sorted
genre_unsorted(books, matches, kk) == Slice(matches, kk)

\* genre_matches[:k] after the sort by title
genre_sorted(books, matches, kk) == Slice(sort_by_title(books, matches), kk)

\* mutant of hybrid_fill: the genre matches are not excluded from the fill
hybrid_fill_no_exclusion(books, matches, sims, kk) ==
    LET remaining_needed == kk - Len(matches)
        available_sims   == sort_by_sims_desc(sims, [i \in 1..Len(books) |-> i])
    IN  Slice(matches \o Slice(available_sims, remaining_needed), kk)

\* mutant of hybrid_fill: the genre matches are sorted by title first
hybrid_fill_sorted(books, matches, sims, kk) ==
    LET remaining_needed == kk - Len(matches)
        used_indices     == {matches[n] : n \in 1..Len(matches)}
        Free(i)          == i \notin used_indices
        available_sims   == sort_by_sims_desc(sims,
                                SelectSeq([i \in 1..Len(books) |-> i], Free))
    IN  Slice(sort_by_title(books, matches) \o Slice(available_sims, remaining_needed), kk)

\* the elif genre_matches: branch, as positions: the genre matches, then the
\* best of the other books by similarity, cut to k
hybrid_fill(books, matches, sims, kk) ==
    LET remaining_needed == kk - Len(matches)
        used_indices     == {matches[n] : n \in 1..Len(matches)}
        Free(i)          == i \notin used_indices
        available_sims   == sort_by_sims_desc(sims,
                                SelectSeq([i \in 1..Len(books) |-> i], Free))
        genre_books      == IF remaining_needed > 0
                            THEN matches \o Slice(available_sims, remaining_needed)
                            ELSE matches
    IN  Slice(genre_books, kk)

(***************************************************************************)
(* State                                                                   *)
(***************************************************************************)

VARIABLES
    BOOKS,          \* the catalog, BOOKS = load_books_from_csv()
    model,          \* the loaded SentenceTransformer
    CORPUS_EMBS,    \* the corpus index, one normalised row per book
    TITLE_LOOKUP,   \* _TITLE_LOOKUP, as the sequence of its (key, value) items
    query_text,     \* the argument of the last call
    k,              \* the k of the last call of recommend_by_text
    result,         \* what the last call returned
    ret,            \* "init" when no call is in progress, else the return
                    \* statement the call in progress left through
    calls,          \* the components the call in progress has run
    procs           \* the concurrent callers: for each, its place in
                    \* recommend_by_text and the locals of its call

vars ==
    <<BOOKS, model, CORPUS_EMBS, TITLE_LOOKUP, query_text, k, result, ret, calls, procs>>

globals == <<BOOKS, model, CORPUS_EMBS, TITLE_LOOKUP>>

\* bound on the number of concurrent callers
MaxProcs == 2

Procs == 1..MaxProcs

\* a caller that is not inside recommend_by_text
IdleProc ==
    [pc |-> "idle", query |-> << >>, k |-> 5, title_idx |-> None,
     matches |-> << >>, sims |-> << >>, result |-> << >>]

\* module import: lines 112-127
Init ==
    /\ \E df \in CsvFiles : BOOKS = load_books_from_csv(df)
    /\ model \in Models
    /\ CORPUS_EMBS = build_corpus_embeddings(model, BOOKS)
    /\ TITLE_LOOKUP = TitleLookupOf(BOOKS)
    /\ query_text = << >>
    /\ k = 5
    /\ result = << >>
    /\ ret = "init"
    /\ calls = {}
    /\ procs = [p \in Procs |-> IdleProc]

\* the title matcher, the genre detector and the embedder
AllComponents ==
    {"_find_title_mentioned", "_detect_genres_from_query_improved", "model.encode"}

Return(query, kk, where, value, ran) ==
    /\ query_text' = query
    /\ k' = kk
    /\ ret' = where
    /\ result' = value
    /\ calls' = ran
    /\ UNCHANGED <<globals, procs>>

(***************************************************************************)
(* recommend_by_text(query, kk): one action per return statement           *)
(***************************************************************************)

\* mutant of ReturnEmpty: the blank check comes after the title matcher
ReturnEmptyAfterMatcher(query, kk) ==
    /\ Strip(OrEmpty(query)) = << >>
    /\ Return(query, kk, "blank", << >>, {"_find_title_mentioned"})

\* q = (query_text or "").strip(); if not q: return []
ReturnEmpty(query, kk) ==
    /\ Strip(OrEmpty(query)) = << >>
    /\ Return(query, kk, "blank", << >>, {})

\* 1) the query mentions a title
TitleSimilarity(query, kk) ==
    LET q         == Strip(OrEmpty(query))
        title_idx == find_title_mentioned(TITLE_LOOKUP, q)
    IN  /\ q # << >>
        /\ title_idx # None
        /\ \E top \in top_idx(title_sims(CORPUS_EMBS, title_idx), kk) :
              Return(query, kk, "title", BooksAt(BOOKS, top), {"_find_title_mentioned"})

\* 3) len(genre_matches) >= k
GenreSorted(query, kk) ==
    LET q               == Strip(OrEmpty(query))
        detected_genres == detect_genres_from_query_improved(q)
        matches         == genre_matches(BOOKS, detected_genres)
    IN  /\ q # << >>
        /\ find_title_mentioned(TITLE_LOOKUP, q) = None
        /\ detected_genres # {}
        /\ Len(matches) >= kk
        /\ Return(query, kk, "genre_sorted",
                  BooksAt(BOOKS, genre_sorted(BOOKS, matches, kk)),
                  {"_find_title_mentioned", "_detect_genres_from_query_improved"})

\* 3) elif genre_matches
HybridFill(query, kk) ==
    LET q               == Strip(OrEmpty(query))
        detected_genres == detect_genres_from_query_improved(q)
        matches         == genre_matches(BOOKS, detected_genres)
    IN  /\ q # << >>
        /\ find_title_mentioned(TITLE_LOOKUP, q) = None
        /\ detected_genres # {}
        /\ ~ (Len(matches) >= kk)
        /\ matches # << >>
        /\ Return(query, kk, "hybrid",
                  BooksAt(BOOKS, hybrid_fill(BOOKS, matches,
                                             query_sims(model, CORPUS_EMBS, q), kk)),
                  AllComponents)

\* 4) no title, and no genre or no genre match
PureEmbedding(query, kk) ==
    LET q               == Strip(OrEmpty(query))
        detected_genres == detect_genres_from_query_improved(q)
        matches         == genre_matches(BOOKS, detected_genres)
    IN  /\ q # << >>
        /\ find_title_mentioned(TITLE_LOOKUP, q) = None
        /\ ~ (detected_genres # {} /\ (Len(matches) >= kk \/ matches # << >>))
        /\ \E top \in top_idx(query_sims(model, CORPUS_EMBS, q), kk) :
              Return(query, kk, "embedding", BooksAt(BOOKS, top), AllComponents)

\* the caller (the /recommend handler) hands the result on; the call's
\* arguments and locals are gone
Respond ==
    /\ ret # "init"
    /\ query_text' = << >>
    /\ k' = 5
    /\ result' = << >>
    /\ ret' = "init"
    /\ calls' = {}
    /\ UNCHANGED <<globals, procs>>

Ks == (0 - MaxNegK)..MaxK

\* a call is made when no call is in progress
Idle == ret = "init"

Next ==
    \/ Idle /\ \E query \in Queries, kk \in Ks : ReturnEmpty(query, kk)
    \/ Idle /\ \E query \in Queries, kk \in Ks : TitleSimilarity(query, kk)
    \/ Idle /\ \E query \in Queries, kk \in Ks : GenreSorted(query, kk)
    \/ Idle /\ \E query \in Queries, kk \in Ks : HybridFill(query, kk)
    \/ Idle /\ \E query \in Queries, kk \in Ks : PureEmbedding(query, kk)
    \/ Respond

Spec == Init /\ [][Next]_vars

(***************************************************************************)
(* The title matcher and the genre detector, called on their own           *)
(***************************************************************************)

FindTitle(query) ==
    /\ Return(query, k, "find_title", find_title_mentioned(TITLE_LOOKUP, query),
              {"_find_title_mentioned"})

NextTitle == (Idle /\ \E query \in Queries : FindTitle(query)) \/ Respond

SpecTitle == Init /\ [][NextTitle]_vars

DetectGenres(query) ==
    /\ Return(query, k, "detect", detect_genres_from_query_improved(query),
              {"_detect_genres_from_query_improved"})

InitDetect == Init /\ model = 0 /\ Len(BOOKS) = 1

NextDetect == (Idle /\ \E query \in DetectQueries : DetectGenres(query)) \/ Respond

SpecDetect == InitDetect /\ [][NextDetect]_vars

(***************************************************************************)
(* The catalog load, called on its own                                     *)
(***************************************************************************)

\* load_books_from_csv(csv_path), for a table that has one index label per row
LoadBooks(csv) ==
    /\ Len(csv.index) = Len(csv.df)
    /\ Return(csv, k, "load", try_load_books_from_csv(csv), {})

InitLoad == Init /\ model = 0 /\ Len(BOOKS) = 1

NextLoad == (Idle /\ \E csv \in CsvSources : LoadBooks(csv)) \/ Respond

SpecLoad == InitLoad /\ [][NextLoad]_vars

(***************************************************************************)
(* Concurrent callers of recommend_by_text, interleaved statement by       *)
(* statement                                                               *)
(***************************************************************************)

\* the queries and the k of the concurrent callers
ConcQueries ==
    { <<" ">>,
      <<"d", "u", "n", "e">>,
      <<"r", "o", "m", "a", "n", "c", "e">>,
      <<"x", "y", "z", "z", "y">> }

ConcKs == {1, MaxK}

\* mutant of store_minus_one: the store goes to the row of the index
store_minus_one_in_index(embs, sims, title_idx) ==
    [embs |-> [embs EXCEPT ![title_idx] = <<MinusOne, MinusOne>>],
     sims |-> sims]

\* sims[title_idx] = -1.0: sims is the array the product allocated, so the
\* store leaves the index embs alone
store_minus_one(embs, sims, title_idx) ==
    [embs |-> embs,
     sims |-> [sims EXCEPT ![title_idx] = MinusOne]]

\* lines 238-263: the blank check, the title matcher, the genre detector and
\* the genre matches decide where the call goes on
Begin(p, query, kk) ==
    LET q               == Strip(OrEmpty(query))
        title_idx       == find_title_mentioned(TITLE_LOOKUP, q)
        detected_genres == detect_genres_from_query_improved(q)
        matches         == genre_matches(BOOKS, detected_genres)
        where           == IF q = << >> THEN "done"
                           ELSE IF title_idx # None THEN "title"
                           ELSE IF detected_genres # {} /\ Len(matches) >= kk THEN "genre"
                           ELSE IF detected_genres # {} /\ matches # << >> THEN "hybrid"
                           ELSE "embedding"
    IN  /\ procs[p].pc = "idle"
        /\ procs' = [procs EXCEPT ![p] =
                        [IdleProc EXCEPT
                            !.pc        = where,
                            !.query     = query,
                            !.k         = kk,
                            !.title_idx = IF where = "title" THEN title_idx ELSE None,
                            !.matches   = IF where \in {"genre", "hybrid"}
                                          THEN matches ELSE << >>]]
        /\ UNCHANGED <<globals, query_text, k, result, ret, calls>>

\* q_emb = CORPUS_EMBS[title_idx]; sims = (CORPUS_EMBS @ q_emb)
Score(p) ==
    /\ procs[p].pc = "title"
    /\ procs' = [procs EXCEPT ![p].pc   = "mask",
                              ![p].sims = MatVec(CORPUS_EMBS,
                                                 CORPUS_EMBS[procs[p].title_idx])]
    /\ UNCHANGED <<globals, query_text, k, result, ret, calls>>

\* sims[title_idx] = -1.0
Mask(p) ==
    LET stored == store_minus_one(CORPUS_EMBS, procs[p].sims, procs[p].title_idx)
    IN  /\ procs[p].pc = "mask"
        /\ CORPUS_EMBS' = stored.embs
        /\ procs' = [procs EXCEPT ![p].pc = "rank", ![p].sims = stored.sims]
        /\ UNCHANGED <<BOOKS, model, TITLE_LOOKUP, query_text, k, result, ret, calls>>

\* top_idx = np.argsort(-sims)[:k]; return [BOOKS[int(i)] for i in top_idx]
TakeTop(p) ==
    /\ procs[p].pc = "rank"
    /\ \E top \in top_idx(procs[p].sims, procs[p].k) :
           procs' = [procs EXCEPT ![p].pc     = "done",
                                  ![p].sims   = << >>,
                                  ![p].result = BooksAt(BOOKS, top)]
    /\ UNCHANGED <<globals, query_text, k, result, ret, calls>>

\* genre_matches.sort(...); return [book for _, book in genre_matches[:k]]
GenreSort(p) ==
    /\ procs[p].pc = "genre"
    /\ procs' = [procs EXCEPT
                    ![p].pc      = "done",
                    ![p].matches = << >>,
                    ![p].result  = BooksAt(BOOKS, genre_sorted(BOOKS, procs[p].matches,
                                                              procs[p].k))]
    /\ UNCHANGED <<globals, query_text, k, result, ret, calls>>

\* q_emb = model.encode([q])[0]; q_emb /= norm + 1e-9; sims = (CORPUS_EMBS @ q_emb)
Embed(p) ==
    /\ procs[p].pc \in {"hybrid", "embedding"}
    /\ procs' = [procs EXCEPT
                    ![p].pc   = IF procs[p].pc = "hybrid" THEN "fill" ELSE "rank",
                    ![p].sims = query_sims(model, CORPUS_EMBS,
                                           Strip(OrEmpty(procs[p].query)))]
    /\ UNCHANGED <<globals, query_text, k, result, ret, calls>>

\* lines 281-290: the fill of the hybrid path
Fill(p) ==
    /\ procs[p].pc = "fill"
    /\ procs' = [procs EXCEPT
                    ![p].pc      = "done",
                    ![p].matches = << >>,
                    ![p].sims    = << >>,
                    ![p].result  = BooksAt(BOOKS, hybrid_fill(BOOKS, procs[p].matches,
                                                             procs[p].sims, procs[p].k))]
    /\ UNCHANGED <<globals, query_text, k, result, ret, calls>>

\* the caller hands the result on
Finish(p) ==
    /\ procs[p].pc = "done"
    /\ procs' = [procs EXCEPT ![p] = IdleProc]
    /\ UNCHANGED <<globals, query_text, k, result, ret, calls>>

\* startup with a catalog of two books, the first of which the query "dune"
\* mentions
InitConc ==
    /\ Init
    /\ model = 0
    /\ Len(BOOKS) = 2
    /\ BOOKS[1].title = <<"D", "u", "n", "e">>

NextConc ==
    \/ \E p \in Procs, query \in ConcQueries, kk \in ConcKs : Begin(p, query, kk)
    \/ \E p \in Procs : Score(p)
    \/ \E p \in Procs : Mask(p)
    \/ \E p \in Procs : TakeTop(p)
    \/ \E p \in Procs : GenreSort(p)
    \/ \E p \in Procs : Embed(p)
    \/ \E p \in Procs : Fill(p)
    \/ \E p \in Procs : Finish(p)

SpecConc == InitConc /\ [][NextConc]_vars

\* recommend_by_text(query, kk) run from its first line to its return on the
\* catalog books, the lookup and the index embs: the results it can give
recommend_by_text(books, lookup, m, embs, query, kk) ==
    LET q               == Strip(OrEmpty(query))
        title_idx       == find_title_mentioned(lookup, q)
        detected_genres == detect_genres_from_query_improved(q)
        matches         == genre_matches(books, detected_genres)
    IN  IF q = << >> THEN {<< >>}
        ELSE IF title_idx # None
        THEN {BooksAt(books, top) : top \in top_idx(title_sims(embs, title_idx), kk)}
        ELSE IF detected_genres # {} /\ Len(matches) >= kk
        THEN {BooksAt(books, genre_sorted(books, matches, kk))}
        ELSE IF detected_genres # {} /\ matches # << >>
        THEN {BooksAt(books, hybrid_fill(books, matches, query_sims(m, embs, q), kk))}
        ELSE {BooksAt(books, top) : top \in top_idx(query_sims(m, embs, q), kk)}

(***************************************************************************)
(* Vocabulary of the properties, stated on the catalog and the query       *)
(* without the engine's own steps                                          *)
(***************************************************************************)

\* the query of the call in progress is blank: empty, None or only whitespace
Blank == Strip(OrEmpty(query_text)) = << >>

\* the call in progress is a call of recommend_by_text
Recommended == ret \in {"blank", "title", "genre_sorted", "hybrid", "embedding"}

N == Len(BOOKS)

Positions == 1..N

\* the positions of the returned books, in the order of the result
ResultIdx == [n \in 1..Len(result) |-> result[n].id]

Returned == {result[n].id : n \in 1..Len(result)}

NoDuplicates == \A a, b \in 1..Len(result) : a # b => result[a].id # result[b].id

\* the title of the book at position i occurs in the query
TitleOccurs(i) == Contains(Lower(BOOKS[i].title), Lower(OrEmpty(query_text)))

SomeTitleOccurs == \E i \in Positions : TitleOccurs(i)

\* the tags the genre detector finds in the query
Detected == detect_genres_from_query_improved(query_text)

\* the positions of the books that carry one of the tags (compared in lower
\* case)
CarriersOf(tags) ==
    {i \in Positions :
        \E n \in 1..Len(BOOKS[i].genres) : Lower(BOOKS[i].genres[n]) \in tags}

\* the positions of the books that carry a detected tag
Carriers == CarriersOf(Detected)

\* the similarity of each book to the embedded query
QuerySims ==
    LET q_emb == NormalizeQuery(encode(model, Strip(query_text)))
    IN  [i \in Positions |-> Dot(CORPUS_EMBS[i], q_emb)]

\* the position the title matcher finds in the query of the call
MentionedIdx == find_title_mentioned(TITLE_LOOKUP, Strip(query_text))

\* the similarity of each book to the book at position t
TitleSims(t) == [i \in Positions |-> Dot(CORPUS_EMBS[i], CORPUS_EMBS[t])]

\* the same, with the entry of the book at position t itself forced to -1.0
MaskedTitleSims(t) ==
    [i \in Positions |-> IF i = t THEN MinusOne ELSE Dot(CORPUS_EMBS[i], CORPUS_EMBS[t])]

\* the positions in S in the order a stable sort by descending key gives
StableDescending(S, key) ==
    LET Before(i, j) == key[i] > key[j] \/ (key[i] = key[j] /\ i < j)
        Rank(i)      == Cardinality({j \in S : Before(j, i)}) + 1
    IN  [n \in 1..Cardinality(S) |-> CHOOSE i \in S : Rank(i) = n]

\* the positions in S in ascending order
Ascending(S) ==
    [n \in 1..Cardinality(S) |-> CHOOSE i \in S : Cardinality({j \in S : j < i}) = n - 1]

(***************************************************************************)
(* Claims                                                                  *)
(***************************************************************************)

C2_TitleBranchExcludesMentioned ==
    (ret = "title" /\ k >= 1) => MentionedIdx \notin Returned

\* C3: in the hybrid fill path the result has min(k, catalog size) items,
\* every genre-matched item comes before every similarity-filled item, the
\* filled items are at least as similar to the query as every item that is
\* neither genre-matched nor returned, and no item appears twice.
C3_HybridFill ==
    ret = "hybrid" =>
        LET matched == Carriers
            sims    == QuerySims
        IN  /\ Len(result) = Min(k, N)
            /\ \A a, b \in 1..Len(result) :
                   (a < b /\ ResultIdx[b] \in matched) => ResultIdx[a] \in matched
            /\ \A x \in Returned \ matched :
                   \A y \in Positions \ (matched \cup Returned) : sims[x] >= sims[y]
            /\ NoDuplicates

\* C3 witness: a hybrid result with a filled item that beat a strictly less
\* similar book, which was left out
C3_Witness ==
    /\ ret = "hybrid"
    /\ LET matched == Carriers
           sims    == QuerySims
       IN  \E x \in Returned \ matched :
               \E y \in Positions \ (matched \cup Returned) : sims[x] > sims[y]

\* C4 (as claimed): when 1 <= m < k books match the detected genres, the
\* result is the m matches in ascending order of title, followed by k - m
\* similarity-filled books (stated for the catalogs that hold k books).
C4_HybridMatchesAlphabetical ==
    (ret = "hybrid" /\ N >= k) =>
        LET matched == Carriers
            m       == Cardinality(matched)
        IN  /\ Len(result) = k
            /\ \A n \in 1..m : ResultIdx[n] \in matched
            /\ \A a, b \in 1..m :
                   a < b => ~ StrLess(result[b].title, result[a].title)
            /\ \A n \in (m + 1)..k : ResultIdx[n] \notin matched

\* C4 (amended): when 1 <= m < k books match the detected genres, the result
\* is the m matches in catalog order, followed by min(k, catalog size) - m
\* similarity-filled books.
C4_HybridMatchesCatalogOrder ==
    ret = "hybrid" =>
        LET matched == Carriers
            m       == Cardinality(matched)
        IN  /\ m >= 1 /\ m < k
            /\ Len(result) = Min(k, N)
            /\ SubSeq(ResultIdx, 1, m) = Ascending(matched)
            /\ \A n \in (m + 1)..Len(result) : ResultIdx[n] \notin matched

\* C4 witness: a hybrid result whose genre matches stand in catalog order
\* although their titles are not in ascending order, with a filled book
C4_Witness ==
    /\ ret = "hybrid"
    /\ Len(result) > Cardinality(Carriers)
    /\ \E a, b \in 1..Cardinality(Carriers) :
           a < b /\ StrLess(result[b].title, result[a].title)

C6_NonPositiveKReturnsEmpty ==
    (Recommended /\ k <= 0) => result = << >>

\* C7 (as claimed): the title matcher returns the position of the first book,
\* in catalog order, whose lower-cased title occurs in the lower-cased query,
\* and None when there is none, also when two books share a lower-cased title.
C7_FirstCatalogTitle ==
    ret = "find_title" =>
        IF SomeTitleOccurs
        THEN /\ result \in Positions
             /\ TitleOccurs(result)
             /\ \A i \in Positions : TitleOccurs(i) => result <= i
        ELSE result = None

\* C7 (amended): the title matcher returns None when no title occurs in the
\* query; otherwise, with f the first book in catalog order whose lower-cased
\* title occurs in the lower-cased query, it returns the position of the last
\* book whose lower-cased title equals that of f (f itself when no later book
\* shares its lower-cased title).
C7_LastOfFirstTitle ==
    ret = "find_title" =>
        IF SomeTitleOccurs
        THEN LET f == CHOOSE i \in Positions :
                        TitleOccurs(i) /\ \A j \in Positions : TitleOccurs(j) => i <= j
             IN  /\ result \in Positions
                 /\ Lower(BOOKS[result].title) = Lower(BOOKS[f].title)
                 /\ \A j \in Positions :
                        Lower(BOOKS[j].title) = Lower(BOOKS[f].title) => j <= result
        ELSE result = None

\* C7 witness: the matcher returns a book that is not the first one whose
\* title occurs in the query
C7_Witness ==
    /\ ret = "find_title"
    /\ result # None
    /\ \E i \in Positions : i < result /\ TitleOccurs(i)

C10_DetectorResult ==
    ret = "detect" =>
        LET Forms   == 1..Len(genre_mapping)
            trimmed == Strip(Lower(query_text))
        IN  IF \E j \in Forms : genre_mapping[j][1] = trimmed
            THEN \E j \in Forms : /\ genre_mapping[j][1] = trimmed
                                  /\ result = {genre_mapping[j][2]}
            ELSE result = {genre_mapping[j][2] :
                              j \in {f \in Forms :
                                        Contains(genre_mapping[f][1], Lower(query_text))}}

\* C10 witness: a query that is no surface form and holds surface forms of
\* two canonical tags
C10_Witness ==
    /\ ret = "detect"
    /\ \A j \in 1..Len(genre_mapping) : genre_mapping[j][1] # Strip(Lower(query_text))
    /\ Cardinality(result) >= 2

\* C11: for every k, a call of recommend_by_text with an empty, None or
\* whitespace-only query returns the empty sequence through the blank check,
\* having run none of the title matcher, the genre detector and the embedder.
C11_BlankReturnsEmpty ==
    (Recommended /\ Blank) =>
        /\ ret = "blank"
        /\ result = << >>
        /\ calls \cap AllComponents = {}

\* C11 witness: a call with None and a negative k, and a call with a query of
\* whitespace, came back through the blank check
C11_Witness ==
    /\ ret = "blank"
    /\ result = << >>
    /\ \/ query_text = NoneText /\ k < 0
       \/ query_text = <<" ">> /\ k >= 1

C16_TokenStepAddsNothing ==
    ret = "detect" =>
        LET q       == Strip(Lower(query_text))
            scanned == SubstringStep(q)
        IN  /\ scanned = {} => TokenStep(q) = {}
            /\ result = IF ExactStep(q) # {} THEN TagsOf(ExactStep(q)) ELSE scanned

\* C16 witness: the substring scan found nothing, the word-by-word step ran
\* on a word that it stripped of punctuation, and nothing was detected
C16_Witness ==
    /\ ret = "detect"
    /\ result = {}
    /\ LET words == Split(Strip(Lower(query_text)))
       IN  \E w \in 1..Len(words) :
               /\ StripChars(words[w], Punctuation) # words[w]
               /\ StripChars(words[w], Punctuation) # << >>

\* C14: when the catalog source is missing, cannot be parsed, or an error
\* occurs at any of its rows, load_books_from_csv returns the built-in catalog,
\* which has at least 12 books with unique positive ids, and never the books
\* loaded before the error.
C14_LoadFallsBack ==
    ret = "load" =>
        LET csv    == query_text
            failed == \/ csv.kind \in {"missing", "unparseable"}
                      \/ \E n \in 1..Len(csv.index) : csv.index[n] = "str"
        IN  failed =>
                /\ result = get_default_books
                /\ Len(result) >= 12
                /\ \A a \in 1..Len(result) : result[a].id \in Nat \ {0}
                /\ \A a, b \in 1..Len(result) : a # b => result[a].id # result[b].id

\* C14 witness: the error occurred at a row after the first, with books
\* already loaded, and the built-in catalog was returned
C14_Witness ==
    /\ ret = "load"
    /\ query_text.kind = "table"
    /\ Len(query_text.index) >= 2
    /\ query_text.index[1] = "int"
    /\ \E n \in 2..Len(query_text.index) : query_text.index[n] = "str"
    /\ result = get_default_books

\* C12: recommend_by_text has no effect on the shared state: in every
\* interleaving of concurrent calls no step changes the catalog BOOKS or a
\* row of the corpus index CORPUS_EMBS (the title branch's store of -1.0
\* included), and the result of each finished call is a result the same call
\* gives when it runs alone on the catalog and the index of startup.
C12_NoSideEffects ==
    /\ [][BOOKS' = BOOKS /\ CORPUS_EMBS' = CORPUS_EMBS]_vars
    /\ [](\A p \in Procs :
             procs[p].pc = "done" =>
                 procs[p].result \in
                     recommend_by_text(BOOKS, TitleLookupOf(BOOKS), model,
                                       build_corpus_embeddings(model, BOOKS),
                                       procs[p].query, procs[p].k))

\* C12 witness: a call of the title branch finished with its result while
\* another call, begun before it, still holds its similarities to rank
C12_Witness ==
    \E p, o \in Procs :
        /\ p # o
        /\ procs[p].pc = "done"
        /\ procs[p].title_idx # None
        /\ procs[p].result # << >>
        /\ procs[o].pc \in {"rank", "fill"}
====
